---- MODULE Spec2Model ----
(***************************************************************************)
(* The PMAN archive codec of src/format/pman.rs: header, entry table,     *)
(* payload extraction, zlib members and the serializer, as a state        *)
(* machine over byte sequences.  A byte is a number in 0..255, a Vec<u8>, *)
(* a &[u8] and a String (its UTF-8 bytes) are sequences of bytes.         *)
(***************************************************************************)
EXTENDS Integers, Sequences, FiniteSets, TLC

VARIABLES
    build,      \* the build profile of the program
    pc,         \* what the caller holds: "bytes", an "archive", or nothing ("dead")
    buf,        \* the bytes held: the input of PmanFile::new, the output of into_bytes
    copyright,  \* PmanFile.copyright
    files,      \* PmanFile.files, each record the bytes of a PmanFileData
    last,       \* the last call: its name, outcome, argument, the archive it consumed
    tab,        \* the entry-table parse of the last PmanFile::new
    first,      \* the archive of the first decode, while nothing has changed it
    zl,         \* the outcome of the last to_zlib
    num         \* record lengths and the entry-table fields computed from them

vars == <<build, pc, buf, copyright, files, last, tab, first, zl, num>>

---------------------------------------------------------------------------
(* Bounds of the model.                                                    *)

\* most entries of a generated entry table
MaxEntries == 2
\* largest entry size in a generated table
MaxSize == 2
\* largest padding gap in a generated table
MaxGap == 1
\* most bytes the generated input holds after the payloads it declares
MaxTrail == 1
\* most bytes over COPYRIGHT_MAX_SIZE of a string given to set_copyright
MaxOver == 1
\* most bytes the inflater is taken to return
MaxInflate == 3
\* most records of an archive whose table arithmetic is checked alone
MaxLens == 2

---------------------------------------------------------------------------
(* Bytes and integers.                                                     *)

HEADER_SIZE == 64
HEADER_MAGIC_STRING == <<80, 77, 65, 78>>
COPYRIGHT_MAX_SIZE == HEADER_SIZE - 9

\* The two build profiles: overflow checks on (debug) or off (release).
Builds == {"debug", "release"}

Rep(n, b) == [i \in 1..n |-> b]

Drop(s, n) == SubSeq(s, n + 1, Len(s))

Take(s, n) == SubSeq(s, 1, n)

\* A usize or u32 value v is held as two limbs, v = hi * 2^16 + lo with lo < 2^16,
\* so that values of 2^32 and more can be computed with: a u32 has hi < 2^16.
Limb == 256 * 256

usize(n) == [hi |-> n \div Limb, lo |-> n % Limb]

\* the cast `as u32`: the value modulo 2^32
as_u32(x) == [hi |-> x.hi % Limb, lo |-> x.lo]

fits_u32(x) == x.hi < Limb

usize_add(x, y) ==
    [hi |-> x.hi + y.hi + ((x.lo + y.lo) \div Limb), lo |-> (x.lo + y.lo) % Limb]

\* u32 + u32: a panic where the build checks overflow, else the sum modulo 2^32
u32_add(bld, x, y) ==
    LET s == usize_add(x, y)
    IN  IF fits_u32(s) THEN [res |-> "Ok", val |-> s]
        ELSE IF bld = "debug" THEN [res |-> "Panic", val |-> as_u32(s)]
        ELSE [res |-> "Ok", val |-> as_u32(s)]

\* u32::to_le_bytes
to_le_bytes(x) == <<x.lo % 256, x.lo \div 256, x.hi % 256, x.hi \div 256>>

\* u32::from_le_bytes
from_le_bytes(b) == b[1] + 256 * b[2] + 65536 * b[3] + 16777216 * b[4]

---------------------------------------------------------------------------
(* nom's parsers.  A result is [ok, kind, rest, val]: ok with the rest of  *)
(* the input and a value, or an error of some kind.                        *)

Ok(rest, val) == [ok |-> TRUE, kind |-> "Ok", rest |-> rest, val |-> val]

Err(kind) == [ok |-> FALSE, kind |-> kind, rest |-> <<>>, val |-> <<>>]

\* a panic (unwrap on None, overflow check, index out of bounds, assert!)
Panic == Err("Panic")

take(n, input) ==
    IF Len(input) >= n THEN Ok(Drop(input, n), Take(input, n)) ELSE Err("Eof")

tag(t, input) ==
    IF Len(input) >= Len(t) /\ Take(input, Len(t)) = t
    THEN Ok(Drop(input, Len(t)), t)
    ELSE Err("Tag")

le_u32(input) ==
    IF Len(input) >= 4 THEN Ok(Drop(input, 4), from_le_bytes(Take(input, 4))) ELSE Err("Eof")

char(c, input) ==
    IF Len(input) >= 1 /\ input[1] = c THEN Ok(Drop(input, 1), c) ELSE Err("Char")

eof(input) == IF Len(input) = 0 THEN Ok(input, <<>>) ELSE Err("Eof")

\* verify(le_u32, |x| *x == 0)
u32_zero(input) ==
    LET r == le_u32(input)
    IN  IF ~r.ok THEN r ELSE IF r.val = 0 THEN r ELSE Err("Verify")

---------------------------------------------------------------------------
(* String::from_utf8_lossy: every maximal invalid part of the input is     *)
(* replaced by U+FFFD, which is the three bytes EF BF BD.                  *)

REPLACEMENT == <<239, 191, 189>>

IsCont(s, i, lo, hi) == i <= Len(s) /\ s[i] >= lo /\ s[i] <= hi

\* [valid, n]: the bytes of s from i on start with a character of n bytes, or
\* with an invalid part of n bytes
Utf8Chunk(s, i) ==
    LET b == s[i]
        lo2 == IF b = 224 THEN 160 ELSE IF b = 240 THEN 144 ELSE 128
        hi2 == IF b = 237 THEN 159 ELSE IF b = 244 THEN 143 ELSE 191
        w == IF b < 128 THEN 1
             ELSE IF b >= 194 /\ b <= 223 THEN 2
             ELSE IF b >= 224 /\ b <= 239 THEN 3
             ELSE IF b >= 240 /\ b <= 244 THEN 4
             ELSE 0
    IN  IF w = 1 THEN [valid |-> TRUE, n |-> 1]
        ELSE IF w = 0 THEN [valid |-> FALSE, n |-> 1]
        ELSE IF ~IsCont(s, i + 1, lo2, hi2) THEN [valid |-> FALSE, n |-> 1]
        ELSE IF w = 2 THEN [valid |-> TRUE, n |-> 2]
        ELSE IF ~IsCont(s, i + 2, 128, 191) THEN [valid |-> FALSE, n |-> 2]
        ELSE IF w = 3 THEN [valid |-> TRUE, n |-> 3]
        ELSE IF ~IsCont(s, i + 3, 128, 191) THEN [valid |-> FALSE, n |-> 3]
        ELSE [valid |-> TRUE, n |-> 4]

RECURSIVE LossyFrom(_, _)
LossyFrom(s, i) ==
    IF i > Len(s) THEN <<>>
    ELSE LET c == Utf8Chunk(s, i)
         IN  (IF c.valid THEN SubSeq(s, i, i + c.n - 1) ELSE REPLACEMENT)
                 \o LossyFrom(s, i + c.n)

from_utf8_lossy(s) == LossyFrom(s, 1)

\* str::trim_end_matches('\0')
RECURSIVE trim_end_matches_NULL(_)
trim_end_matches_NULL(s) ==
    IF Len(s) > 0 /\ s[Len(s)] = 0 THEN trim_end_matches_NULL(Take(s, Len(s) - 1)) ELSE s

---------------------------------------------------------------------------
(* Decoding.                                                               *)

\* Ok(rest, [copyright, count]) or an error
read_header(input) ==
    LET t == take(HEADER_SIZE, input)
        m == tag(HEADER_MAGIC_STRING, t.val)
        c == le_u32(m.rest)
        s == take(COPYRIGHT_MAX_SIZE, c.rest)
        z == char(0, s.rest)
        e == eof(z.rest)
    IN  IF ~t.ok THEN t
        ELSE IF ~m.ok THEN m
        ELSE IF ~c.ok THEN c
        ELSE IF ~s.ok THEN s
        ELSE IF ~z.ok THEN z
        ELSE IF ~e.ok THEN e
        ELSE Ok(t.rest, [copyright |-> trim_end_matches_NULL(from_utf8_lossy(s.val)),
                         count |-> c.val])

entry_table_size(file_entry_count) == file_entry_count * 4 * 4

FileEntry(offset, size) == [offset |-> offset, size |-> size]

with_size(entry, size) == [entry EXCEPT !.size = size]

\* FileEntry::from_bytes: fill(le_u32, &mut fields)
from_bytes(input) ==
    LET a == le_u32(input)
        b == le_u32(a.rest)
    IN  IF ~a.ok THEN a
        ELSE IF ~b.ok THEN b
        ELSE Ok(b.rest, FileEntry(a.val, b.val))

\* the element parser of the table: a zero u32 (the entry's first reserved field),
\* then an entry
TableThen(t) == IF t.ok THEN from_bytes(t.rest) ELSE t

TableElem(table) == TableThen(u32_zero(table))

\* nom's separated_list1(u32_zero, TableElem) after its first element: the
\* separator s, then the element f; a failing separator or element ends the list
\* with the input i before the separator
RECURSIVE SeparatedMore(_, _)
MoreElem(i, res, f) ==
    IF f.ok THEN SeparatedMore(f.rest, Append(res, f.val)) ELSE Ok(i, res)

MoreSep(i, res, s) == IF s.ok THEN MoreElem(i, res, TableElem(s.rest)) ELSE Ok(i, res)

SeparatedMore(i, res) == MoreSep(i, res, u32_zero(i))

SeparatedFirst(f) == IF f.ok THEN SeparatedMore(f.rest, <<f.val>>) ELSE f

separated_list1(table) == SeparatedFirst(TableElem(table))

\* the end of read_file_entries after the list l parsed from the table t:
\* (u32_zero, eof) on what the list left
EntriesEof(t, l, z) ==
    IF ~z.ok THEN z
    ELSE IF Len(z.rest) # 0 THEN Err("Eof")
    ELSE Ok(t.rest, l.val)

EntriesList(t, l) == IF l.ok THEN EntriesEof(t, l, u32_zero(l.rest)) ELSE l

EntriesTable(t) == IF t.ok THEN EntriesList(t, separated_list1(t.val)) ELSE t

read_file_entries(input, file_entry_count) ==
    EntriesTable(take(entry_table_size(file_entry_count), input))

\* usize subtraction entry.offset - (prev_offset + prev_size): "overflow" where the
\* build checks it and the difference is negative, else the difference, which in a
\* release build wraps to 2^64 + d
GapSub(bld, offset, prev_end) ==
    IF offset >= prev_end THEN [res |-> "Ok", wrapped |-> FALSE, d |-> offset - prev_end]
    ELSE IF bld = "debug" THEN [res |-> "Panic", wrapped |-> FALSE, d |-> 0]
    ELSE [res |-> "Ok", wrapped |-> TRUE, d |-> offset - prev_end]

\* take(gap): a wrapped gap is at least 2^64 - 2^33, more than any slice holds
TakeGap(g, input) ==
    IF g.res = "Panic" THEN Panic
    ELSE IF g.wrapped THEN Err("Eof")
    ELSE take(g.d, input)

\* the files read so far and the one read now
FilesCons(data, more) == IF more.ok THEN Ok(more.rest, <<data>> \o more.val) ELSE more

\* the closure of read_files applied to the entries from k on: preceded(take(gap),
\* take(entry.size)), then the next entry with this one as prev_entry
RECURSIVE ReadFilesFrom(_, _, _, _, _)
FilesData(bld, entries, k, data) ==
    IF data.ok
    THEN FilesCons(data.val, ReadFilesFrom(bld, data.rest, entries, k + 1, entries[k]))
    ELSE data

FilesSkip(bld, entries, k, skip) ==
    IF skip.ok THEN FilesData(bld, entries, k, take(entries[k].size, skip.rest)) ELSE skip

ReadFilesFrom(bld, input, entries, k, prev) ==
    IF k > Len(entries) THEN Ok(input, <<>>)
    ELSE FilesSkip(bld, entries, k,
                   TakeGap(GapSub(bld, entries[k].offset, prev.offset + prev.size), input))

read_files(bld, input, file_entries) ==
    IF Len(file_entries) = 0 THEN Panic
    ELSE ReadFilesFrom(bld, input, file_entries, 1, with_size(file_entries[1], 0))

\* PmanFile::new: Ok(rest, [copyright, files]) or an error
NewFiles(h, f) ==
    IF f.ok THEN Ok(f.rest, [copyright |-> h.val.copyright, files |-> f.val]) ELSE f

NewEntries(bld, h, t) == IF t.ok THEN NewFiles(h, read_files(bld, t.rest, t.val)) ELSE t

NewHeader(bld, h) ==
    IF h.ok THEN NewEntries(bld, h, read_file_entries(h.rest, h.val.count)) ELSE h

PmanFile_new(bld, bytes) == NewHeader(bld, read_header(bytes))

---------------------------------------------------------------------------
(* The archive's operations.                                               *)

\* set_copyright whose assert! is `<` for `<=`: a string of 55 bytes is refused
set_copyright_strict(old, new) ==
    IF Len(new) < COPYRIGHT_MAX_SIZE
    THEN [res |-> "Ok", copyright |-> new]
    ELSE [res |-> "Panic", copyright |-> old]

\* PmanFile::set_copyright: the new copyright, or a panic of the assert!
set_copyright(old, new) ==
    IF Len(new) <= COPYRIGHT_MAX_SIZE
    THEN [res |-> "Ok", copyright |-> new]
    ELSE [res |-> "Panic", copyright |-> old]

size_upto_file_data(n) == HEADER_SIZE + entry_table_size(n)

\* the number of zero bytes written after the copyright,
\* COPYRIGHT_MAX_SIZE - len + 1 in usize: an overflow panic in a debug build; in a
\* release build the difference wraps, to 0 for len = 56 and else to nearly 2^64
\* zero bytes, which no buffer holds (the allocation fails)
PadCount(bld, len) ==
    IF len <= COPYRIGHT_MAX_SIZE THEN [res |-> "Ok", n |-> COPYRIGHT_MAX_SIZE - len + 1]
    ELSE IF bld = "debug" THEN [res |-> "Panic", n |-> 0]
    ELSE IF len = COPYRIGHT_MAX_SIZE + 1 THEN [res |-> "Ok", n |-> 0]
    ELSE [res |-> "Abort", n |-> 0]

\* the fields written so far and the one written now
FieldsCons(entry, more) ==
    IF more.res = "Ok" THEN [res |-> "Ok", fields |-> <<entry>> \o more.fields] ELSE more

\* the try_fold of into_bytes over the records' lengths (usize values), from the
\* offset `offset` (a u32) on: the (offset, size) fields written, or a panic
RECURSIVE TableFold(_, _, _, _)
FoldStep(bld, lens, k, offset, size, next) ==
    IF next.res = "Panic" THEN [res |-> "Panic", fields |-> <<>>]
    ELSE FieldsCons(FileEntry(offset, size), TableFold(bld, lens, k + 1, next.val))

\* the fold whose closure returns `offset` for `offset + size`
FoldSizeStuck(bld, lens, k, offset, size) ==
    FoldStep(bld, lens, k, offset, size, [res |-> "Ok", val |-> offset])

FoldSize(bld, lens, k, offset, size) ==
    FoldStep(bld, lens, k, offset, size, u32_add(bld, offset, size))

TableFold(bld, lens, k, offset) ==
    IF k > Len(lens) THEN [res |-> "Ok", fields |-> <<>>]
    ELSE FoldSize(bld, lens, k, offset, as_u32(lens[k]))

\* the entry table of into_bytes for records of these lengths
EntryTable(bld, lens) ==
    TableFold(bld, lens, 1, as_u32(usize(size_upto_file_data(Len(lens)))))

RECURSIVE TableBytes(_)
TableBytes(fields) ==
    IF Len(fields) = 0 THEN <<>>
    ELSE Rep(4, 0) \o to_le_bytes(fields[1].offset) \o to_le_bytes(fields[1].size)
             \o Rep(4, 0) \o TableBytes(Drop(fields, 1))

RECURSIVE Concat(_)
Concat(ss) == IF Len(ss) = 0 THEN <<>> ELSE ss[1] \o Concat(Drop(ss, 1))

\* the buffer of into_bytes, from the padding count and the table computed
BytesOf(cr, fs, pad, table) ==
    IF pad.res # "Ok" THEN [res |-> pad.res, bytes |-> <<>>]
    ELSE IF table.res # "Ok" THEN [res |-> table.res, bytes |-> <<>>]
    ELSE [res |-> "Ok",
          bytes |-> HEADER_MAGIC_STRING \o to_le_bytes(as_u32(usize(Len(fs))))
                        \o cr \o Rep(pad.n, 0)
                        \o TableBytes(table.fields) \o Concat(fs)]

\* PmanFile::into_bytes: [res, bytes]
into_bytes(bld, cr, fs) ==
    BytesOf(cr, fs, PadCount(bld, Len(cr)),
            EntryTable(bld, [i \in 1..Len(fs) |-> usize(Len(fs[i]))]))

\* PmanFileData::to_zlib with the outcome `inf` of the inflater's read_to_end on
\* bytes[5..]: [res, declared, out], res one of "None", "Some", "Panic"
to_zlib(bytes, inf) ==
    IF Len(bytes) < 2 THEN [res |-> "Panic", declared |-> 0, out |-> <<>>]
    ELSE IF Take(bytes, 2) # <<90, 76>> THEN [res |-> "None", declared |-> 0, out |-> <<>>]
    ELSE IF Len(bytes) < 5 THEN [res |-> "Panic", declared |-> 0, out |-> <<>>]
    ELSE IF ~inf.ok
    THEN [res |-> "Panic", declared |-> from_le_bytes(<<bytes[3], bytes[4], bytes[5], 0>>),
          out |-> <<>>]
    ELSE [res |-> "Some", declared |-> from_le_bytes(<<bytes[3], bytes[4], bytes[5], 0>>),
          out |-> inf.out]

---------------------------------------------------------------------------
(* The inputs: byte buffers given to PmanFile::new.                        *)

\* the bytes after the entry table are a prefix of this: "ZL", then distinct bytes
Tape(n) == [i \in 1..n |-> IF i = 1 THEN 90 ELSE IF i = 2 THEN 76 ELSE i]

\* a zlib member: "ZL", the declared size 2 in three bytes, two bytes of stream
ZlTape == <<90, 76, 2, 0, 0, 120, 156>>

CField(s) == s \o Rep(COPYRIGHT_MAX_SIZE - Len(s), 0)

Header(magic, count, field, term) ==
    magic \o to_le_bytes(usize(count)) \o field \o <<term>>

Row(r0, offset, size, r1) == [r0 |-> r0, offset |-> offset, size |-> size, r1 |-> r1]

RECURSIVE RowsBytes(_)
RowsBytes(rows) ==
    IF Len(rows) = 0 THEN <<>>
    ELSE to_le_bytes(usize(rows[1].r0)) \o to_le_bytes(usize(rows[1].offset))
             \o to_le_bytes(usize(rows[1].size)) \o to_le_bytes(usize(rows[1].r1))
             \o RowsBytes(Drop(rows, 1))

GoodField == CField(<<67, 111, 112, 121>>)

\* the 55 bytes of a copyright field: text, nothing, a full field, a null inside,
\* a two-byte character, and bytes that are not UTF-8
CopyrightFields ==
    { GoodField, CField(<<>>), Rep(COPYRIGHT_MAX_SIZE, 65), CField(<<65, 0, 66>>),
      CField(<<195, 169>>), CField(<<255>>), Rep(COPYRIGHT_MAX_SIZE, 255),
      Rep(COPYRIGHT_MAX_SIZE - 2, 65) \o <<226, 130>> }

\* offsets of a table whose first entry is d0 bytes after the table and whose
\* entry k follows entry k - 1 after gaps[k] bytes
RECURSIVE OffsetOf(_, _, _, _, _)
OffsetOf(n, d0, sizes, gaps, k) ==
    IF k = 1 THEN size_upto_file_data(n) + d0
    ELSE OffsetOf(n, d0, sizes, gaps, k - 1) + sizes[k - 1] + gaps[k]

LayoutRows(n, d0, sizes, gaps) ==
    [k \in 1..n |-> Row(0, OffsetOf(n, d0, sizes, gaps, k), sizes[k], 0)]

RECURSIVE MaxEnd(_, _)
MaxEnd(rows, k) ==
    IF k = 0 THEN 0
    ELSE LET e == rows[k].offset + rows[k].size
             m == MaxEnd(rows, k - 1)
         IN  IF e > m THEN e ELSE m

\* the bytes after the table: one byte short of what the rows declare, all of it,
\* or up to MaxTrail bytes more
BodyLens(n, rows) ==
    LET need == IF n = 0 THEN 0 ELSE MaxEnd(rows, n) - size_upto_file_data(n)
    IN  {l \in (need - 1)..(need + MaxTrail) : l >= 0}

File(count, field, rows, l) ==
    Header(HEADER_MAGIC_STRING, count, field, 0) \o RowsBytes(rows) \o Tape(l)

\* tables whose entries vary in offset, gap and size
PayloadInputs ==
    UNION { { File(n, GoodField, LayoutRows(n, d0, sizes, gaps), l) :
                l \in BodyLens(n, LayoutRows(n, d0, sizes, gaps)) } :
            <<n, d0, sizes, gaps>> \in
                UNION { {n} \X (0..MaxGap) \X [1..n -> 0..MaxSize] \X [1..n -> (-1)..MaxGap] :
                        n \in 1..MaxEntries } }

\* tables of 0..MaxEntries entries of one byte each whose reserved fields vary
ReservedInputs ==
    UNION { { File(n, GoodField,
                   [k \in 1..n |-> Row(r0[k], size_upto_file_data(n) + k - 1, 1, r1[k])],
                   n) :
              <<r0, r1>> \in [1..n -> {0, 1}] \X [1..n -> {0, 1}] } :
            n \in 0..MaxEntries }

OneEntry == <<Row(0, size_upto_file_data(1), 1, 0)>>

\* headers whose magic, copyright field and terminator vary
HeaderInputs ==
    { Header(m, 1, f, t) \o RowsBytes(OneEntry) \o Tape(1) :
        m \in {HEADER_MAGIC_STRING, <<80, 77, 65, 77>>}, f \in CopyrightFields, t \in {0, 65} }

\* a well-formed file cut short in the header, in the table, in the payload
CutInputs ==
    { Take(File(1, GoodField, OneEntry, 1), k) :
        k \in {0, HEADER_SIZE - 1, HEADER_SIZE, size_upto_file_data(1) - 1,
               size_upto_file_data(1)} }

\* one record cut from a zlib member after 4, 5, .. bytes, and one of five bytes
\* that is no member
MemberInputs ==
    { Header(HEADER_MAGIC_STRING, 1, GoodField, 0)
          \o RowsBytes(<<Row(0, size_upto_file_data(1), k, 0)>>) \o Take(ZlTape, k) :
        k \in 4..Len(ZlTape) }
      \cup { Header(HEADER_MAGIC_STRING, 1, GoodField, 0)
                \o RowsBytes(<<Row(0, size_upto_file_data(1), 5, 0)>>) \o Drop(ZlTape, 1) }

Inputs == PayloadInputs \cup ReservedInputs \cup HeaderInputs \cup CutInputs \cup MemberInputs

\* strings given to set_copyright (UTF-8): ASCII of the lengths around the limit,
\* two-byte characters, a null inside and a null at the end
CopyrightArgs ==
    { Rep(k, 65) : k \in {0, 3} \cup ((COPYRIGHT_MAX_SIZE - 1)..(COPYRIGHT_MAX_SIZE + MaxOver)) }
      \cup { [i \in 1..(2 * k) |-> IF i % 2 = 1 THEN 195 ELSE 169] :
               k \in {(COPYRIGHT_MAX_SIZE - 1) \div 2, (COPYRIGHT_MAX_SIZE + 1) \div 2} }
      \cup { <<65, 0, 66>>, <<65, 0>> }

\* outcomes of the inflater's read_to_end: an error, or some bytes
InflateOutcomes ==
    { [ok |-> FALSE, out |-> <<>>] } \cup { [ok |-> TRUE, out |-> Rep(k, 7)] : k \in 0..MaxInflate }

---------------------------------------------------------------------------
(* The state machine of a caller of the archive's public operations.       *)

Archive(c, f) == [copyright |-> c, files |-> f]

Call(op, res, arg, pre) == [op |-> op, res |-> res, arg |-> arg, pre |-> pre]

NoArchive == Archive(<<>>, <<>>)

NoCall == Call("none", "none", <<>>, NoArchive)

NoTab == [ran |-> FALSE, count |-> 0, input |-> <<>>, res |-> Err("none")]

NoFirst == [state |-> "none", copyright |-> <<>>, files |-> <<>>]

NoZl == [res |-> "none", declared |-> 0, out |-> <<>>]

NoNum == [lens |-> <<>>, res |-> "none", fields |-> <<>>]

\* the outcome of a nom result: Ok, a panic, or an error value
Outcome(r) == IF r.ok THEN "Ok" ELSE IF r.kind = "Panic" THEN "Panic" ELSE "Err"

Stale == IF first.state = "none" THEN NoFirst ELSE [NoFirst EXCEPT !.state = "stale"]

Init ==
    /\ build \in Builds
    /\ pc = "bytes"
    /\ buf \in Inputs
    /\ copyright = <<>>
    /\ files = <<>>
    /\ last = NoCall
    /\ tab = NoTab
    /\ first = NoFirst
    /\ zl = NoZl
    /\ num = NoNum

\* the entry-table stage of PmanFile::new, after the header h
TabOf(h) ==
    IF h.ok
    THEN [ran |-> TRUE, count |-> h.val.count, input |-> h.rest,
          res |-> read_file_entries(h.rest, h.val.count)]
    ELSE NoTab

NewDone(r) ==
    /\ last' = Call("new", Outcome(r), buf, NoArchive)
    /\ pc' = IF r.ok THEN "archive" ELSE "dead"
    /\ copyright' = IF r.ok THEN r.val.copyright ELSE <<>>
    /\ files' = IF r.ok THEN r.val.files ELSE <<>>
    /\ first' = IF r.ok /\ first.state = "none"
                THEN [state |-> "clean", copyright |-> r.val.copyright,
                      files |-> r.val.files]
                ELSE first

\* PmanFile::new(buf)
New ==
    /\ pc = "bytes"
    /\ NewDone(PmanFile_new(build, buf))
    /\ tab' = TabOf(read_header(buf))
    /\ buf' = <<>>
    /\ zl' = NoZl
    /\ UNCHANGED <<build, num>>

SetCopyrightDone(s, r) ==
    /\ last' = Call("set_copyright", r.res, s, NoArchive)
    /\ copyright' = r.copyright
    /\ pc' = IF r.res = "Ok" THEN "archive" ELSE "dead"

\* archive.set_copyright(s)
SetCopyright(s) ==
    /\ pc = "archive"
    /\ SetCopyrightDone(s, set_copyright(copyright, s))
    /\ first' = Stale
    /\ tab' = NoTab
    /\ zl' = NoZl
    /\ UNCHANGED <<build, buf, files, num>>

\* archive.files_mut().pop()
FilesMutPop ==
    /\ pc = "archive"
    /\ Len(files) > 0
    /\ files' = Take(files, Len(files) - 1)
    /\ last' = Call("files_mut", "Ok", <<>>, NoArchive)
    /\ first' = Stale
    /\ tab' = NoTab
    /\ zl' = NoZl
    /\ UNCHANGED <<build, pc, buf, copyright, num>>

ToZlibDone(i, r) ==
    /\ zl' = r
    /\ last' = Call("to_zlib", r.res, files[i], NoArchive)
    /\ pc' = IF r.res = "Panic" THEN "dead" ELSE "archive"

\* archive[i].to_zlib(), the inflater ending as inf
ToZlib(i, inf) ==
    /\ pc = "archive"
    /\ i \in 1..Len(files)
    /\ ToZlibDone(i, to_zlib(files[i], inf))
    /\ tab' = NoTab
    /\ UNCHANGED <<build, buf, copyright, files, first, num>>

IntoBytesDone(r) ==
    /\ last' = Call("into_bytes", r.res, <<>>, Archive(copyright, files))
    /\ buf' = r.bytes
    /\ pc' = IF r.res = "Ok" THEN "bytes" ELSE "dead"

\* archive.into_bytes()
IntoBytes ==
    /\ pc = "archive"
    /\ IntoBytesDone(into_bytes(build, copyright, files))
    /\ copyright' = <<>>
    /\ files' = <<>>
    /\ tab' = NoTab
    /\ zl' = NoZl
    /\ UNCHANGED <<build, first, num>>

Next ==
    \/ New
    \/ \E s \in CopyrightArgs : SetCopyright(s)
    \/ FilesMutPop
    \/ \E i \in 1..Len(files), inf \in InflateOutcomes : ToZlib(i, inf)
    \/ IntoBytes

Spec == Init /\ [][Next]_vars

---------------------------------------------------------------------------
(* The entry-table arithmetic of into_bytes on its own, for records whose *)
(* lengths reach 2^32: a length is a usize value, not a sequence.         *)

\* lengths around the ends of the u32 range: 0, 1, 2^32 - 97, 2^32 - 1, 2^32, 2^32 + 1
BigLens ==
    { usize(0), usize(1), [hi |-> Limb - 1, lo |-> Limb - 97], [hi |-> Limb - 1, lo |-> Limb - 1],
      [hi |-> Limb, lo |-> 0], [hi |-> Limb, lo |-> 1] }

LenSeqs == UNION { [1..n -> BigLens] : n \in 0..MaxLens }

InitNum ==
    /\ build \in Builds
    /\ pc = "dead"
    /\ buf = <<>>
    /\ copyright = <<>>
    /\ files = <<>>
    /\ last = NoCall
    /\ tab = NoTab
    /\ first = NoFirst
    /\ zl = NoZl
    /\ num \in { [NoNum EXCEPT !.lens = l] : l \in LenSeqs }

TableDone(t) == num' = [num EXCEPT !.res = t.res, !.fields = t.fields]

\* the table of into_bytes for an archive whose records have the lengths num.lens
IntoBytesTable ==
    /\ num.res = "none"
    /\ TableDone(EntryTable(build, num.lens))
    /\ UNCHANGED <<build, pc, buf, copyright, files, last, tab, first, zl>>

NextNum == IntoBytesTable

SpecNum == InitNum /\ [][NextNum]_vars

---------------------------------------------------------------------------
(* The claims.                                                             *)

\* the little-endian u32 at the byte offset p of b
U32At(b, p) == b[p + 1] + 256 * b[p + 2] + 65536 * b[p + 3] + 16777216 * b[p + 4]

RECURSIVE SumLen(_, _)
SumLen(fs, k) == IF k = 0 THEN 0 ELSE SumLen(fs, k - 1) + Len(fs[k])

\* C1: for every buffer on which decode succeeds, encode of the decoded archive
\* succeeds, and decoding its output succeeds and yields the same copyright, the
\* same number of records and the same payload bytes as the first decode.
C1_RoundTrip ==
    (first.state = "clean" /\ last.op \in {"into_bytes", "new"}) =>
        /\ last.res = "Ok"
        /\ last.op = "new" => (copyright = first.copyright /\ files = first.files)

\* the round trip of C1 for the archives whose decoded copyright has at most 55 bytes
RoundTripWhenCopyrightFits ==
    (first.state = "clean" /\ Len(first.copyright) <= 55
        /\ last.op \in {"into_bytes", "new"}) =>
        /\ last.res = "Ok"
        /\ last.op = "new" => (copyright = first.copyright /\ files = first.files)

\* the entries of the table of the input decoded last have a negative gap
NegativeGap ==
    /\ tab.ran
    /\ tab.res.ok
    /\ \E k \in 2..Len(tab.res.val) :
          tab.res.val[k].offset < tab.res.val[k - 1].offset + tab.res.val[k - 1].size

\* C2: when some entry k > 0 has offset_k < offset_(k-1) + size_(k-1), decode fails
\* with a format error: it returns an error value and neither aborts nor wraps.
C2_NegativeGapFails == (last.op = "new" /\ NegativeGap) => last.res = "Err"

\* C3, as amended: set_copyright(s) with at most 55 bytes is accepted and the stored
\* copyright is then s; with more than 55 bytes the call panics, the stored
\* copyright and the records being as before the call.
C3_SetCopyrightAcceptsOrPanics ==
    [][(pc = "archive" /\ last'.op = "set_copyright") =>
          IF Len(last'.arg) <= 55
          THEN last'.res = "Ok" /\ pc' = "archive" /\ copyright' = last'.arg /\ files' = files
          ELSE last'.res = "Panic" /\ pc' = "dead" /\ copyright' = copyright /\ files' = files]_vars

\* C3, as claimed: a string of more than 55 bytes is rejected with an error value
\* (CopyrightTooLong), the archive being unchanged and still usable.
C3_SetCopyrightRejectsWithError ==
    [][(pc = "archive" /\ last'.op = "set_copyright") =>
          IF Len(last'.arg) <= 55
          THEN last'.res = "Ok" /\ pc' = "archive" /\ copyright' = last'.arg /\ files' = files
          ELSE last'.res = "Err" /\ pc' = "archive" /\ copyright' = copyright /\ files' = files]_vars

\* a call of set_copyright with 56 bytes in 28 characters has panicked
C3_Witness ==
    /\ last.op = "set_copyright"
    /\ Len(last.arg) = 56
    /\ last.arg[1] = 195
    /\ last.res = "Panic"

\* C4: in every archive reached by a successful decode and any calls of
\* set_copyright, the stored copyright has at most 55 bytes and no null byte.
C4_CopyrightInvariant ==
    pc = "archive" =>
        /\ Len(copyright) <= 55
        /\ \A i \in 1..Len(copyright) : copyright[i] # 0

\* a payload is a zlib member: at least 5 bytes, the first two "ZL"
IsMember(blob) == Len(blob) >= 5 /\ blob[1] = 90 /\ blob[2] = 76

\* C5: the zlib-member test is total: a payload that is no member, of any length,
\* is reported as no member (None) without failing, and a member is not.
C5_MemberTestTotal ==
    last.op = "to_zlib" =>
        /\ ~IsMember(last.arg) => last.res = "None"
        /\ IsMember(last.arg) => last.res # "None"

\* C6: a record that starts with "ZL" and declares the size N in bytes 2..5
\* decompresses to exactly N bytes or fails; no result has another length.
C6_DeclaredSizeExact ==
    (last.op = "to_zlib" /\ last.res = "Some") =>
        Len(zl.out) = last.arg[3] + 256 * last.arg[4] + 65536 * last.arg[5]

\* the bytes b are the encoding of the records fs under the copyright cr: 64 bytes
\* of header with the count, the rows [0, offset, size, 0], the payloads back to back
Layout(b, cr, fs) ==
    LET n == Len(fs)
    IN  /\ Len(b) = 64 + 16 * n + SumLen(fs, n)
        /\ SubSeq(b, 1, 4) = <<80, 77, 65, 78>>
        /\ U32At(b, 4) = n
        /\ SubSeq(b, 9, 8 + Len(cr)) = cr
        /\ \A i \in (9 + Len(cr))..64 : b[i] = 0
        /\ \A i \in 1..n :
              LET row == 64 + 16 * (i - 1)
                  offset == 64 + 16 * n + SumLen(fs, i - 1)
              IN  /\ U32At(b, row) = 0
                  /\ U32At(b, row + 4) = offset
                  /\ U32At(b, row + 8) = Len(fs[i])
                  /\ U32At(b, row + 12) = 0
                  /\ SubSeq(b, offset + 1, offset + Len(fs[i])) = fs[i]

\* C7: for every archive with n records and a copyright of at most 55 bytes,
\* into_bytes outputs exactly 64 + 16 n + (sum of the record lengths) bytes: the
\* header with the count n, the rows [0, offset_i, size_i, 0] with size_i the length
\* of record i and offset_i = 64 + 16 n + the lengths before it, then the payloads
\* in order with no gap.
C7_EncodeLayout ==
    (last.op = "into_bytes" /\ Len(last.pre.copyright) <= 55) =>
        /\ last.res = "Ok"
        /\ Layout(buf, last.pre.copyright, last.pre.files)

\* an archive of two non-empty records and a copyright has been encoded
C7_Witness ==
    /\ last.op = "into_bytes"
    /\ last.res = "Ok"
    /\ Len(last.pre.copyright) > 0
    /\ Len(last.pre.files) = 2
    /\ Len(last.pre.files[1]) > 0
    /\ Len(last.pre.files[2]) > 0

\* the running offset of record i, not reduced modulo 2^32
RECURSIVE TrueOffset(_, _)
TrueOffset(lens, i) ==
    IF i = 1 THEN usize(64 + 16 * Len(lens))
    ELSE usize_add(TrueOffset(lens, i - 1), lens[i - 1])

\* C8: when a record length or a running offset does not fit in 32 bits, encode
\* fails: a table it emits holds every offset and size, not its value modulo 2^32.
C8_NoWrappedFields ==
    num.res = "Ok" =>
        \A i \in 1..Len(num.lens) :
            /\ num.fields[i].size = num.lens[i]
            /\ num.fields[i].offset = TrueOffset(num.lens, i)

\* the reserved fields of the first n 16-byte records of b are zero
ReservedZero(b, n) ==
    \A i \in 1..n : U32At(b, 16 * (i - 1)) = 0 /\ U32At(b, 16 * (i - 1) + 12) = 0

\* the parse of the table: entry_count entries in on-disk order, 16 bytes each
ParsedAs(b, n, r) ==
    /\ r.rest = SubSeq(b, 16 * n + 1, Len(b))
    /\ Len(r.val) = n
    /\ \A i \in 1..n :
          /\ r.val[i].offset = U32At(b, 16 * (i - 1) + 4)
          /\ r.val[i].size = U32At(b, 16 * (i - 1) + 8)

\* C9: for every entry_count >= 0 and every input of at least 16 entry_count bytes,
\* the table parse succeeds if and only if every reserved field is zero, and then
\* consumes 16 entry_count bytes and returns the entry_count entries in order.
C9_EntryTableParse ==
    (tab.ran /\ Len(tab.input) >= 16 * tab.count) =>
        /\ tab.res.ok <=> ReservedZero(tab.input, tab.count)
        /\ tab.res.ok => ParsedAs(tab.input, tab.count, tab.res)

\* the statement of C9 for the tables of at least one entry
EntryTableParseNonEmpty ==
    (tab.ran /\ tab.count >= 1 /\ Len(tab.input) >= 16 * tab.count) =>
        /\ tab.res.ok <=> ReservedZero(tab.input, tab.count)
        /\ tab.res.ok => ParsedAs(tab.input, tab.count, tab.res)

\* C10: on every successful decode, record i, the first one included, is the
\* size_i bytes of the input that start at the position offset_i.
C10_PayloadAtOffset ==
    (last.op = "new" /\ last.res = "Ok") =>
        \A i \in 1..Len(files) :
            /\ Len(files[i]) = tab.res.val[i].size
            /\ \A j \in 1..Len(files[i]) :
                  /\ tab.res.val[i].offset + j <= Len(last.arg)
                  /\ files[i][j] = last.arg[tab.res.val[i].offset + j]

\* what the decode does: record i is the size_i bytes that start
\* offset_i - offset_1 bytes after the entry table
PayloadRelativeToFirst ==
    (last.op = "new" /\ last.res = "Ok") =>
        \A i \in 1..Len(files) :
            LET at == 64 + 16 * Len(files) + tab.res.val[i].offset - tab.res.val[1].offset
            IN  files[i] = SubSeq(last.arg, at + 1, at + tab.res.val[i].size)

====
